---- MODULE Spec2Model ----
(***************************************************************************)
(* StoryWonder story generation: the POST /api/stories handler             *)
(* (server/routes.ts), generateStory / generateImage (server/openai.ts)    *)
(* and OpenAIService.generateImagePrompt (server/services/openai.ts), and   *)
(* the payload GeminiService.generateImage builds                          *)
(* (server/services/gemini.ts).                                            *)
(*                                                                         *)
(* Entity ids are the opaque id strings of the text provider's response.   *)
(* An entity object is named by its position in the response's entity      *)
(* list.  Page indexes are 0-based as in the handler, page numbers         *)
(* 1-based.  An image URL is written as the number of the uuid it holds.   *)
(***************************************************************************)
EXTENDS Integers, Sequences, FiniteSets, TLC

\* ---------------------------------------------------------------- bounds
MaxPages == 2
MaxStoryPages == 1
MaxCredits == 1
MaxPromptPages == 14
MaxReferenceImages == 2
MaxOrderPages == 3
MaxConcurrentPages == 2
MaxUserCredits == 2

\* ------------------------------------------------------ program constants
DefaultTotalPages == 5
NumCameraAngles == 7
NumPoses == 5

\* ---------------------------------------------------------------- helpers
\* The ids the text provider uses in a response.
EntityIds == {"e1", "e2"}

SeqsUpTo(S, n) == UNION {[1..k -> S] : k \in 0..n}

Range(s) == {s[i] : i \in DOMAIN s}

Includes(s, x) == \E i \in DOMAIN s : s[i] = x

EmptyMap == [x \in {} |-> 0]

\* ------------------------------------------------------------------ state
VARIABLES
  pc,                    \* position of the POST /api/stories handler
  body,                  \* the request body
  userExists,            \* storage: is there a user row for body.userId
  credits,               \* storage: that user's credits
  stories,               \* storage: the story records written
  status,                \* HTTP status sent (0: none yet)
  textInFlight,          \* text-provider calls issued and not yet returned
  textCalls,             \* text-provider calls issued so far
  extraction,            \* generateStoryEntities: none, requested, returned,
                         \* offSchema (parsed, but not {entities, pages}), error
  extractionCalls,       \* requests generateStoryEntities sent to the provider
  storyResponse,         \* what generateStoryEntities returned
  generatedStory,        \* pages of generatedStory: entity-id list per page
  entities,              \* entity list (ids; an entity object is its position)
  entityFrequency,
  entityFirstAppearance,
  recurringEntities,
  index,                 \* loop variable of the page loop
  entityFirstImageURLs,
  storyPagesWithImages,
  imageInFlight,         \* page indexes whose image call has not returned
  imageRequest,          \* arguments of the latest generateImage call
  imageCalls,            \* page numbers of the image calls issued so far
  failedPage,            \* page number whose image call failed (0: none)
  creditsAtStart,        \* the user's credits when the request arrived
  nextUrl,               \* next fresh uuid of storageService.uploadImage
  promptsSent,           \* the prompts handed to the image provider, in order
  characterReferenceImages,
  entityGenerationIds,
  storyPages,            \* generateStory: number of pages of storyData.pages
  enhancedPages,         \* generateStory: directives composed, in page order
  imagePc,               \* position of a story-text or an image request
  ageRange,              \* story-text request: its ageRange
  ageGuidance,           \* generateStoryEntities: the AGE_GUIDANCE entry used
  ageImageGuidance,      \* generateImagePrompt: the AGE_IMAGE_GUIDANCE entry used
  form,                  \* image request: art style and colour mode chosen
  imageOptions,          \* the options object handed to generateImage
  wrapped,               \* generateImage: wrappedPrompt
  referencesRead,        \* GeminiService.generateImage: paths visited so far
  contents,              \* GeminiService.generateImage: the payload
  storyDataPages,        \* generateStory: the texts of storyData.pages
  promptsPending,        \* page indexes whose generateImagePrompt call is out
  promptsSettled,        \* page indexes in the order their calls returned
  enhanced,              \* generateStory: what Promise.all resolved to
  orderIndex,            \* loop variable of the page loop of that request
  orderedPages,          \* storyPagesWithImages of that request
  orderPc,               \* position of that request
  reqPages,              \* two requests: generatedStory.pages of each
  reqPc,                 \* two requests: position of each handler
  reqIndex,              \* two requests: loop variable of each
  firstImageURLs,        \* two requests: the entityFirstImageURLs objects
  reqReferencePaths,     \* two requests: characterReferencePaths per image call
  reqImageUrls,          \* two requests: the image URLs each generated
  uuid,                  \* next fresh uuid of the shared image storage
  userCredits,           \* one user, several requests: the credits column
  creditPc,              \* position of each of that user's requests
  creditsRead,           \* user.credits as each request last read it
  storiesCreated,        \* stories stored for that user's requests
  creditsGranted         \* the credits the user had before the requests

vars == <<pc, body, userExists, credits, stories, status, textInFlight,
          textCalls, extraction, extractionCalls, storyResponse, generatedStory, entities,
          entityFrequency, entityFirstAppearance, recurringEntities, index,
          entityFirstImageURLs, storyPagesWithImages, imageInFlight,
          imageRequest, imageCalls, failedPage, creditsAtStart, nextUrl,
          promptsSent, characterReferenceImages, entityGenerationIds,
          storyPages, enhancedPages, imagePc, ageRange, ageGuidance,
          ageImageGuidance, form, imageOptions, wrapped, referencesRead,
          contents, storyDataPages, promptsPending, promptsSettled, enhanced,
          orderIndex, orderedPages, orderPc, reqPages, reqPc, reqIndex,
          firstImageURLs, reqReferencePaths, reqImageUrls, uuid, userCredits,
          creditPc, creditsRead, storiesCreated, creditsGranted>>

storageVars == <<userExists, credits, stories>>
textVars == <<textInFlight, textCalls, extraction, extractionCalls, storyResponse>>
trackerVars == <<generatedStory, entities, entityFrequency,
                 entityFirstAppearance, recurringEntities>>
accumulatorVars == <<promptsSent, characterReferenceImages, entityGenerationIds>>
loopVars == <<index, entityFirstImageURLs, storyPagesWithImages,
              imageInFlight, imageRequest, imageCalls, failedPage,
              creditsAtStart, nextUrl, accumulatorVars>>
directiveVars == <<storyPages, enhancedPages>>
policyVars == <<ageRange, ageGuidance, ageImageGuidance>>
composeVars == <<form, imageOptions, wrapped, referencesRead, contents>>
orderVars == <<storyDataPages, promptsPending, promptsSettled, enhanced,
               orderIndex, orderedPages, orderPc>>
concurrentVars == <<reqPages, reqPc, reqIndex, firstImageURLs,
                    reqReferencePaths, reqImageUrls, uuid>>
creditVars == <<userCredits, creditPc, creditsRead, storiesCreated,
                creditsGranted>>
\* The variables of the requests looked at on their own (page order, two
\* requests at once, one user's credits): no step of the single request or
\* of the prompt pipelines touches them.
sideVars == <<orderVars, concurrentVars, creditVars>>
promptVars == <<directiveVars, imagePc, policyVars, composeVars, sideVars>>
handlerVars == <<pc, body, status, storageVars, textVars, trackerVars, loopVars,
                 sideVars>>
singleRequestVars == <<pc, body, status, storageVars, textVars, trackerVars,
                       loopVars, directiveVars, imagePc, policyVars, composeVars>>

\* The URL of a pre-generated character image (req.body.characterImages); the
\* URLs of the images generated in the request are 1, 2, ...
PreGeneratedUrl == 0

\* Object.values(characterImages).filter(Boolean) of the request bodies.
CharacterImages == {<< >>, <<PreGeneratedUrl>>}

\* The request bodies: userId given or not, form data valid or not, the
\* number of pre-written pages (req.body.pages) and the character images.
Bodies == [userId : BOOLEAN, formValid : BOOLEAN, storyPages : 0..MaxStoryPages,
           characterImages : CharacterImages]

\* The id lists of a response: an id may be missing and may repeat.
IdLists == SeqsUpTo(EntityIds, Cardinality(EntityIds))

\* The text provider's parsed JSON: entity ids and, per page, entitiesPresent.
Responses == [entities : IdLists, pages : SeqsUpTo(IdLists, MaxPages)]

NoResponse == [entities |-> << >>, pages |-> << >>]

NoForm == [artStyle |-> "", colorMode |-> ""]

NoOptions == [prompt |-> << >>, artStyle |-> "", colorMode |-> "",
              entities |-> << >>, characterReferencePaths |-> << >>,
              characterReferenceURLs |-> << >>, isFirstPage |-> FALSE]

NoRequest == [page |-> -1, entities |-> << >>, characterReferencePaths |-> << >>,
              isFirstPage |-> FALSE, prompt |-> << >>,
              entityReferenceIds |-> EmptyMap]

InitRequest ==
  /\ pc = "pending"
  /\ body \in Bodies
  \* the users table is read only for a request that carries a userId
  /\ userExists \in (IF body.userId THEN BOOLEAN ELSE {FALSE})
  /\ credits \in (IF userExists THEN 0..MaxCredits ELSE {0})
  /\ stories = << >>
  /\ status = 0
  /\ textInFlight = 0
  /\ textCalls = 0
  /\ extraction = "none"
  /\ extractionCalls = 0
  /\ storyResponse = NoResponse
  /\ generatedStory = << >>
  /\ entities = << >>
  /\ entityFrequency = EmptyMap
  /\ entityFirstAppearance = EmptyMap
  /\ recurringEntities = << >>
  /\ index = 0
  /\ entityFirstImageURLs = EmptyMap
  /\ storyPagesWithImages = << >>
  /\ imageInFlight = {}
  /\ imageRequest = NoRequest
  /\ imageCalls = << >>
  /\ failedPage = 0
  /\ creditsAtStart = credits
  /\ nextUrl = 1
  /\ promptsSent = << >>
  /\ characterReferenceImages = EmptyMap
  /\ entityGenerationIds = EmptyMap
  /\ storyPages = 0
  /\ enhancedPages = << >>
  /\ imagePc = "idle"
  /\ ageRange = ""
  /\ ageGuidance = ""
  /\ ageImageGuidance = ""
  /\ form = NoForm
  /\ imageOptions = NoOptions
  /\ wrapped = << >>
  /\ referencesRead = 0
  /\ contents = << >>

\* The two requests that run at the same time.
Requests == {1, 2}

\* No request of the kinds looked at on their own has arrived.
IdleOrder ==
  /\ storyDataPages = << >>
  /\ promptsPending = {}
  /\ promptsSettled = << >>
  /\ enhanced = << >>
  /\ orderIndex = 0
  /\ orderedPages = << >>
  /\ orderPc = "idle"

IdleConcurrent ==
  /\ reqPages = [r \in Requests |-> << >>]
  /\ reqPc = [r \in Requests |-> "idle"]
  /\ reqIndex = [r \in Requests |-> 0]
  /\ firstImageURLs = [r \in Requests |-> EmptyMap]
  /\ reqReferencePaths = [r \in Requests |-> << >>]
  /\ reqImageUrls = [r \in Requests |-> << >>]
  /\ uuid = 1

IdleCredits ==
  /\ userCredits = 0
  /\ creditPc = [r \in Requests |-> "idle"]
  /\ creditsRead = [r \in Requests |-> 0]
  /\ storiesCreated = 0
  /\ creditsGranted = 0

Init == InitRequest /\ IdleOrder /\ IdleConcurrent /\ IdleCredits

\* ---------------------------------------------------------------- tracker
\* The (pageIndex, entityId) pairs in the order the two nested forEach loops
\* visit them.
RECURSIVE Visits(_, _)
Visits(pages, i) ==
  IF i > Len(pages) THEN << >>
  ELSE [k \in 1..Len(pages[i]) |-> <<i - 1, pages[i][k]>>] \o Visits(pages, i + 1)

\* entityFrequency[entityId] = (entityFrequency[entityId] || 0) + 1
CountVisit(freq, id) ==
  IF id \in DOMAIN freq THEN [freq EXCEPT ![id] = @ + 1] ELSE (id :> 1) @@ freq

\* Variant: the first appearance is overwritten by every later appearance.
RecordFirstOverwrite(first, id, pageIndex) ==
  [x \in DOMAIN first \cup {id} |-> IF x = id THEN pageIndex ELSE first[x]]

\* if (entityFirstAppearance[entityId] === undefined) ... = pageIndex
RecordFirst(first, id, pageIndex) ==
  IF id \in DOMAIN first THEN first ELSE (id :> pageIndex) @@ first

\* Object.entries lists the keys in insertion order.
RecordKey(keys, id) == IF Includes(keys, id) THEN keys ELSE Append(keys, id)

RECURSIVE Analyze(_, _, _)
Analyze(t, visits, k) ==
  IF k > Len(visits) THEN t
  ELSE Analyze(CHOOSE n \in {[freq |-> CountVisit(s.freq, visits[k][2]),
                               first |-> RecordFirst(s.first, visits[k][2], visits[k][1]),
                               keys |-> RecordKey(s.keys, visits[k][2])] : s \in {t}} : TRUE,
               visits, k + 1)

Tracker(pages) ==
  Analyze([freq |-> EmptyMap, first |-> EmptyMap, keys |-> << >>],
          Visits(pages, 1), 1)

\* Object.entries(entityFrequency).filter(count > 1).map(id)
Recurring(t) == SelectSeq(t.keys, LAMBDA id : t.freq[id] > 1)

\* ------------------------------------------------------ handler, first part
\* Credit check and form validation (routes.ts, before generateStory).
CreditCheck ==
  /\ pc = "pending"
  /\ IF body.userId /\ ~userExists THEN pc' = "failed" /\ status' = 404
     ELSE IF body.userId /\ credits <= 0 THEN pc' = "failed" /\ status' = 403
     ELSE IF ~body.formValid THEN pc' = "failed" /\ status' = 400
     ELSE pc' = "callGenerateStory" /\ status' = status
  /\ UNCHANGED <<promptVars, body, storageVars, textVars, trackerVars, loopVars>>

\* generateStory calls openaiService.generateStoryEntities, which sends one
\* chat.completions.create request.
GenerateStoryEntitiesCall ==
  /\ pc = "callGenerateStory"
  /\ pc' = "extracting"
  /\ extraction' = "requested"
  /\ extractionCalls' = extractionCalls + 1
  /\ textInFlight' = textInFlight + 1
  /\ textCalls' = textCalls + 1
  /\ UNCHANGED <<promptVars, body, storageVars, status, storyResponse, trackerVars, loopVars>>

\* storyPages.map(...): one generateImagePrompt request per page of storyData.
PromptRequests(r) == Len(r.pages)

\* The text provider answers with parsable JSON, with as many pages as it
\* chose to write (numberOfPages is only a sentence of the request text):
\* generateStory maps over the pages and issues one generateImagePrompt
\* request per page (Promise.all).
GenerateStoryEntitiesReturn ==
  /\ pc = "extracting"
  /\ \E r \in Responses :
       /\ storyResponse' = r
       /\ textInFlight' = textInFlight - 1 + PromptRequests(r)
       /\ textCalls' = textCalls + PromptRequests(r)
  /\ extraction' = "returned"
  /\ pc' = "prompting"
  /\ UNCHANGED <<promptVars, body, storageVars, status, extractionCalls, trackerVars, loopVars>>

\* JSON.parse(entityContent) as StoryResponse: the content is a JSON object
\* with neither an entities nor a pages key.  The cast checks nothing, and
\* generateStory goes on with storyData.entities || [] and
\* storyData.pages || [].
OffSchemaStory == [entities |-> << >>, pages |-> << >>]

GenerateStoryEntitiesOffSchema ==
  /\ pc = "extracting"
  /\ storyResponse' = OffSchemaStory
  /\ textInFlight' = textInFlight - 1 + PromptRequests(OffSchemaStory)
  /\ textCalls' = textCalls + PromptRequests(OffSchemaStory)
  /\ extraction' = "offSchema"
  /\ pc' = "prompting"
  /\ UNCHANGED <<promptVars, body, storageVars, status, extractionCalls, trackerVars, loopVars>>

\* Variant: a failed extraction is requested again.
OnExtractionErrorRetry == [pc |-> "callGenerateStory", status |-> 0]

\* Variant: a failed extraction counts as a story without entities and pages.
OnExtractionErrorEmptyStory == [pc |-> "prompting", status |-> 0]

\* generateStoryEntities throws, generateStory rethrows ("Failed to generate
\* story"), and the handler's catch answers 500.
OnExtractionError == [pc |-> "failed", status |-> 500]

\* No content, content that JSON.parse rejects, or a provider error.
GenerateStoryEntitiesFail ==
  /\ pc = "extracting"
  /\ textInFlight' = textInFlight - 1
  /\ extraction' = "error"
  /\ pc' = OnExtractionError.pc
  /\ status' = OnExtractionError.status
  /\ UNCHANGED <<promptVars, body, storageVars, textCalls, extractionCalls, storyResponse,
                 trackerVars, loopVars>>

\* One generateImagePrompt request returns (also after Promise.all rejected).
ImagePromptReturn ==
  /\ pc \in {"prompting", "failed"}
  /\ textInFlight > 0
  /\ textInFlight' = textInFlight - 1
  /\ UNCHANGED <<promptVars, pc, body, storageVars, status, textCalls, extraction,
                 extractionCalls, storyResponse, trackerVars, loopVars>>

\* One generateImagePrompt request fails: Promise.all rejects.
ImagePromptFail ==
  /\ pc = "prompting"
  /\ textInFlight > 0
  /\ textInFlight' = textInFlight - 1
  /\ pc' = "failed"
  /\ status' = 500
  /\ UNCHANGED <<promptVars, body, storageVars, textCalls, extraction, extractionCalls,
                 storyResponse, trackerVars, loopVars>>

\* Variant: Promise.all is not awaited.
PromptsSettledNoAwait == TRUE

\* await Promise.all(...): every generateImagePrompt request has returned.
PromptsSettled == textInFlight = 0

\* Variant: the pages of the fresh extraction are used as they are.
GeneratedPagesOfResponse(resp) == resp.pages

\* generatedStory.pages: the response's pages, or the pre-written pages with
\* the entity ids of the response page at the same index.
GeneratedPages(resp) ==
  IF body.storyPages > 0
  THEN [i \in 1..body.storyPages |->
          IF i <= Len(resp.pages) THEN resp.pages[i] ELSE << >>]
  ELSE resp.pages

\* generateStory returns; the handler computes the tracker maps.
GenerateStoryReturn ==
  /\ pc = "prompting"
  /\ PromptsSettled
  /\ generatedStory' = GeneratedPages(storyResponse)
  /\ entities' = storyResponse.entities
  /\ LET t == Tracker(GeneratedPages(storyResponse)) IN
       /\ entityFrequency' = t.freq
       /\ entityFirstAppearance' = t.first
       /\ recurringEntities' = Recurring(t)
  /\ pc' = "loop"
  /\ UNCHANGED <<promptVars, body, storageVars, status, textVars, loopVars>>

\* ------------------------------------------------- generateImage: the prompt
\* A prompt is the sequence of its blocks of text; a block is written as its
\* heading t and, where the block embeds a value, that value a.
Tok(t, a) == [t |-> t, a |-> a]

\* Own keys of ART_STYLE_DESCRIPTIONS, and property names every JavaScript
\* object inherits from Object.prototype.
ArtStyleKeys == {"anime", "watercolor", "3d_cartoon", "pixel_art", "comic_book",
                 "minimalist_caricature", "line_art", "stick_man",
                 "gouache_texture"}

ObjectPrototypeKeys == {"constructor"}

\* style.toLowerCase().replace(/\s+/g, '_') on the art styles of this model
NormalizeStyle(style) == IF style = "Line Art" THEN "line_art" ELSE style

\* Variant: an unknown style is looked up without a default.
getArtStyleDescriptionNoDefault(style) ==
  IF NormalizeStyle(style) \in ArtStyleKeys THEN NormalizeStyle(style)
  ELSE "undefined"

\* ART_STYLE_DESCRIPTIONS[normalizedStyle] || `${style} illustration style ...`
\* The descriptor of an own key is written as the key; the lookup of an
\* inherited property name gives that property of Object.prototype.
getArtStyleDescription(style) ==
  IF NormalizeStyle(style) \in ArtStyleKeys THEN NormalizeStyle(style)
  ELSE IF NormalizeStyle(style) \in ObjectPrototypeKeys THEN "Object.prototype"
  ELSE "default illustration style"

\* getColorModeDescription: the grayscale-only directive, or nothing.
getColorModeDescription(colorMode) ==
  IF colorMode = "monochrome"
  THEN <<Tok("IMPORTANT: BLACK AND WHITE / MONOCHROME only", "")>>
  ELSE << >>

MAX_PROMPT_LENGTH == 1000
WRAPPER_LENGTH == 200

\* Number of characters of a style descriptor: an entry of
\* ART_STYLE_DESCRIPTIONS, String(Object) for an inherited property, or the
\* default sentence.
StyleDescriptionLength(d) ==
  CASE d = "anime" -> 452
    [] d = "watercolor" -> 460
    [] d = "3d_cartoon" -> 451
    [] d = "pixel_art" -> 425
    [] d = "comic_book" -> 421
    [] d = "minimalist_caricature" -> 393
    [] d = "line_art" -> 385
    [] d = "stick_man" -> 408
    [] d = "gouache_texture" -> 413
    [] d = "Object.prototype" -> 36
    [] OTHER -> 60

\* Number of characters of a block: of the scene text, or of the two
\* templates of generateImage (counted in the source text).
TokenLength(tok) ==
  CASE tok.t = "scene" /\ tok.a = "long" -> 780
    [] tok.t = "scene" -> 300
    [] tok.t = "NO TEXT in the image" -> 90
    [] tok.t = "Create an illustration for" -> 130
    [] tok.t = "CHARACTERS:" -> 120
    [] tok.t = "Use the reference image(s) above as strict visual references" -> 83
    [] tok.t = "Create a children's book illustration" -> 41
    [] tok.t = "ART STYLE (MUST FOLLOW EXACTLY)" -> 40 + StyleDescriptionLength(tok.a)
    [] tok.t = "IMPORTANT: This is the FIRST page" -> 124
    [] tok.t = "CRITICAL: Characters must appear EXACTLY as established" -> 89
    [] tok.t = "SCENE" -> 14
    [] tok.t = "CHARACTER DESIGN SPECIFICATIONS" -> 35
    [] tok.t = "MAINTAIN EXACT APPEARANCE" -> 93
    [] tok.t = "REQUIREMENTS" /\ tok.a = "first page" -> 233
    [] tok.t = "REQUIREMENTS" -> 281
    [] OTHER -> 40

RECURSIVE TextLength(_)
TextLength(text) ==
  IF text = << >> THEN 0 ELSE TokenLength(Head(text)) + TextLength(Tail(text))

\* The blocks that lie whole within the first n characters.
RECURSIVE Substring(_, _)
Substring(text, n) ==
  IF text = << >> \/ TokenLength(Head(text)) > n THEN << >>
  ELSE <<Head(text)>> \o Substring(Tail(text), n - TokenLength(Head(text)))

\* finalPrompt.length > availableLength ? substring(0, availableLength - 3) + "..."
trimmedFinalPrompt(finalPrompt) ==
  LET availableLength == MAX_PROMPT_LENGTH - WRAPPER_LENGTH
  IN IF TextLength(finalPrompt) > availableLength
     THEN Substring(finalPrompt, availableLength - 3) \o <<Tok("...", "")>>
     ELSE finalPrompt

OfType(entityTypes, type) == SelectSeq(entityTypes, LAMBDA e : e = type)

\* "Enhance the prompt with entity details": o.entities is the list of the
\* entities' types.
enhancedPrompt(o) ==
  o.prompt
  \o (IF OfType(o.entities, "character") # << >>
      THEN <<Tok("CHARACTERS:", "")>> ELSE << >>)
  \o (IF OfType(o.entities, "location") # << >>
      THEN <<Tok("SETTING:", "")>> ELSE << >>)
  \o (IF OfType(o.entities, "object") # << >>
      THEN <<Tok("OBJECTS:", "")>> ELSE << >>)

characterConsistencyBlock(o) ==
  IF OfType(o.entities, "character") # << >>
  THEN <<Tok("CHARACTER DESIGN SPECIFICATIONS", ""),
         Tok("MAINTAIN EXACT APPEARANCE", "")>>
  ELSE << >>

\* Object.values(characterReferenceURLs).slice(0, 3) when no path was given
referenceImagePaths(o) ==
  IF Len(o.characterReferencePaths) = 0 /\ Len(o.characterReferenceURLs) > 0
  THEN SubSeq(o.characterReferenceURLs, 1,
              IF Len(o.characterReferenceURLs) < 3
              THEN Len(o.characterReferenceURLs) ELSE 3)
  ELSE o.characterReferencePaths

\* Variant: the instruction is prepended on later pages only.
referenceInstructionLaterPages(o) ==
  IF Len(referenceImagePaths(o)) > 0 /\ ~o.isFirstPage
  THEN <<Tok("Use the reference image(s) above as strict visual references", "")>>
  ELSE << >>

\* if (characterReferencePaths.length > 0) wrappedPrompt = `Use the ...`
referenceInstruction(o) ==
  IF Len(referenceImagePaths(o)) > 0
  THEN <<Tok("Use the reference image(s) above as strict visual references", "")>>
  ELSE << >>

\* The two templates of generateImage.
wrappedPrompt(o) ==
  referenceInstruction(o)
  \o <<Tok("Create a children's book illustration", ""),
       Tok("ART STYLE (MUST FOLLOW EXACTLY)",
           getArtStyleDescription(IF o.artStyle = "" THEN "colorful"
                                  ELSE o.artStyle)),
       IF o.isFirstPage
       THEN Tok("IMPORTANT: This is the FIRST page", "")
       ELSE Tok("CRITICAL: Characters must appear EXACTLY as established", ""),
       Tok("SCENE", "")>>
  \o trimmedFinalPrompt(IF Len(o.entities) > 0 THEN enhancedPrompt(o)
                        ELSE o.prompt)
  \o characterConsistencyBlock(o)
  \o <<Tok("REQUIREMENTS", IF o.isFirstPage THEN "first page" ELSE "later page")>>

\* page.imagePrompt of the pages of this handler model: what the text
\* provider wrote for the page.
PageImagePrompt == <<Tok("scene", "short")>>

\* The form's art style in this handler model (storyFormSchema: an ART_STYLES
\* member).
FormArtStyle == "anime"

\* generatedStory.pages[i].imagePrompt: the prompt of the response page, or
\* for a pre-written page without a response page
\* `Create an illustration for: ${page.text.substring(0, 100)}...`
pageImagePrompt(i) ==
  IF body.storyPages > 0 /\ i + 1 > Len(storyResponse.pages)
  THEN <<Tok("Create an illustration for", "")>>
  ELSE PageImagePrompt

\* generatedStory.pages[i].text: the text of the i-th pre-written page, or of
\* the i-th page the text provider wrote.
pageText(i) ==
  [from |-> IF body.storyPages > 0 THEN "req.body.pages" ELSE "storyData.pages",
   page |-> i + 1]

\* The options object of the handler's generateImage call.  The entity types
\* are not told apart in the handler model: every entity is a character.
ImageOptions(i, relevantEntities, paths) ==
  [prompt |-> pageImagePrompt(i),
   artStyle |-> FormArtStyle,
   colorMode |-> "color",
   entities |-> [k \in DOMAIN relevantEntities |-> "character"],
   characterReferencePaths |-> paths,
   characterReferenceURLs |-> << >>,
   isFirstPage |-> (i = 0)]

\* --------------------------------------------------------------- page loop
pageEntities(i) == generatedStory[i + 1]

\* Variant: every entity of the page counts as a first appearance.
firstAppearanceEntitiesEveryPage(i) == pageEntities(i)

\* Variant: the page number is compared instead of the page index.
firstAppearanceEntitiesPageNumber(i) ==
  SelectSeq(pageEntities(i),
            LAMBDA id : id \in DOMAIN entityFirstAppearance
                        /\ entityFirstAppearance[id] = i + 1)

firstAppearanceEntities(i) ==
  SelectSeq(pageEntities(i),
            LAMBDA id : id \in DOMAIN entityFirstAppearance
                        /\ entityFirstAppearance[id] = i)

recurringPageEntities(i) ==
  SelectSeq(pageEntities(i),
            LAMBDA id : id \in DOMAIN entityFirstAppearance
                        /\ entityFirstAppearance[id] # i)

\* Positions of the entity objects handed to a filter over `entities`.
Positions(s) == [k \in DOMAIN s |-> k]

pagePrimaryEntities(i) ==
  SelectSeq(Positions(entities),
            LAMBDA p : Includes(pageEntities(i), entities[p]))

\* entityDetailsMap[id]: the reduce keeps the last entity with that id.
entityDetailsMap ==
  [id \in Range(entities) |->
     CHOOSE p \in DOMAIN entities :
       entities[p] = id /\ \A q \in DOMAIN entities : entities[q] = id => q <= p]

recurringEntityObjects(i) ==
  LET ids == SelectSeq(recurringEntities,
                       LAMBDA id : ~Includes(pageEntities(i), id))
      known == SelectSeq(ids, LAMBDA id : id \in DOMAIN entityDetailsMap)
  IN [k \in DOMAIN known |-> entityDetailsMap[known[k]]]

allRelevantEntities(i) == pagePrimaryEntities(i) \o recurringEntityObjects(i)

\* push entityFirstImageURLs[id] for each id of a sequence unless included
RECURSIVE PushReferences(_, _, _)
PushReferences(paths, ids, k) ==
  IF k > Len(ids) THEN paths
  ELSE PushReferences(
         IF ids[k] \in DOMAIN entityFirstImageURLs
            /\ ~Includes(paths, entityFirstImageURLs[ids[k]])
         THEN Append(paths, entityFirstImageURLs[ids[k]])
         ELSE paths,
         ids, k + 1)

\* Object.values(preGeneratedCharacterImages).filter(Boolean)
preGeneratedImageUrls == body.characterImages

\* [...preGeneratedImageUrls] and then the images of earlier pages
characterReferencePaths(i) ==
  PushReferences(preGeneratedImageUrls, recurringPageEntities(i), 1)

\* pageEntityRefs: the generation ids known for the entities of the page
pageEntityRefs(i) ==
  [id \in {x \in Range(pageEntities(i)) : x \in DOMAIN entityGenerationIds} |->
     entityGenerationIds[id]]

\* Variant: generateImage reports a generation id for an entity.
generatedIdsFresh(entityReferenceIds) == ("e1" :> 1) @@ entityReferenceIds

\* generateImage: generatedIds: { ...entityReferenceIds }
generatedIds(entityReferenceIds) == entityReferenceIds

\* generateImage: characterImageReferences, one entry per character among
\* the entities handed in (ids[k] is the id of the entity of type types[k]).
characterImageReferences(o, ids, url) ==
  IF o.isFirstPage \/ Len(o.characterReferenceURLs) = 0
  THEN [id \in {ids[k] : k \in {j \in DOMAIN ids : o.entities[j] = "character"}} |-> url]
  ELSE EmptyMap

\* Object.entries(...).forEach(([entityId, value]) => map[entityId] = value)
AssignEntries(map, entries) ==
  [id \in DOMAIN map \cup DOMAIN entries |->
     IF id \in DOMAIN entries THEN entries[id] ELSE map[id]]

\* Variant: the base prompt of the page is stored.
storedImagePromptBase(revisedPrompt, basePrompt) == basePrompt

\* imagePrompt: revisedPrompt || page.imagePrompt
storedImagePrompt(revisedPrompt, basePrompt) ==
  IF revisedPrompt # << >> THEN revisedPrompt ELSE basePrompt

\* Variant: the call is not awaited, the loop goes on to the next page.
AfterIssueNoAwait(i) == [pc |-> "loop", index |-> i + 1]

\* `await generateImage(...)`: the handler is suspended on page i.
AfterIssue(i) == [pc |-> "awaitImage", index |-> i]

\* Variant: the loop steps back to the page before.
NextIndexBack(i) == IF i > 0 THEN i - 1 ELSE i + 1

\* index++ of the for loop
NextIndex(i) == i + 1

\* Variant: the error is caught inside the loop and the page is skipped.
OnImageErrorSkipPage(i) == [pc |-> "loop", status |-> 0, index |-> i + 1]

\* The catch block of the handler: generateImage rethrows, the handler
\* answers 500 and the loop is left.
OnImageError(i) == [pc |-> "failed", status |-> 500, index |-> i]

GenerateImageCall ==
  /\ pc = "loop"
  /\ index < Len(generatedStory)
  /\ imageRequest' = [page |-> index,
                      entities |-> allRelevantEntities(index),
                      characterReferencePaths |-> characterReferencePaths(index),
                      isFirstPage |-> (index = 0),
                      prompt |-> wrappedPrompt(
                                   ImageOptions(index, allRelevantEntities(index),
                                                characterReferencePaths(index))),
                      entityReferenceIds |-> pageEntityRefs(index)]
  /\ promptsSent' =
       Append(promptsSent,
              wrappedPrompt(ImageOptions(index, allRelevantEntities(index),
                                         characterReferencePaths(index))))
  /\ imageInFlight' = imageInFlight \cup {index}
  /\ imageCalls' = Append(imageCalls, index + 1)
  /\ pc' = AfterIssue(index).pc
  /\ index' = AfterIssue(index).index
  /\ UNCHANGED <<promptVars, body, storageVars, status, textVars, trackerVars,
                 entityFirstImageURLs, storyPagesWithImages, failedPage,
                 creditsAtStart, nextUrl, characterReferenceImages,
                 entityGenerationIds>>

\* entityFirstImageURLs[id] = imageUrl for each id of a sequence
SetFirstImages(map, ids, url) ==
  [id \in DOMAIN map \cup Range(ids) |->
     IF id \in Range(ids) THEN url ELSE map[id]]

GenerateImageReturn ==
  /\ pc = "awaitImage"
  /\ index \in imageInFlight
  /\ imageInFlight' = imageInFlight \ {index}
  /\ entityFirstImageURLs' =
       SetFirstImages(entityFirstImageURLs, firstAppearanceEntities(index), nextUrl)
  /\ storyPagesWithImages' =
       Append(storyPagesWithImages,
              [pageNumber |-> index + 1, text |-> pageText(index),
               imageUrl |-> nextUrl,
               imagePrompt |-> storedImagePrompt(imageRequest.prompt,
                                                 pageImagePrompt(index)),
               entities |-> pageEntities(index)])
  /\ entityGenerationIds' =
       AssignEntries(entityGenerationIds, generatedIds(imageRequest.entityReferenceIds))
  /\ characterReferenceImages' =
       AssignEntries(characterReferenceImages,
                     characterImageReferences(
                       ImageOptions(index, imageRequest.entities,
                                    imageRequest.characterReferencePaths),
                       [k \in DOMAIN imageRequest.entities |->
                          entities[imageRequest.entities[k]]],
                       nextUrl))
  /\ nextUrl' = nextUrl + 1
  /\ index' = NextIndex(index)
  /\ pc' = "loop"
  /\ UNCHANGED <<promptVars, body, storageVars, status, textVars, trackerVars,
                 imageRequest, imageCalls, failedPage, creditsAtStart, promptsSent>>

GenerateImageFail ==
  /\ pc = "awaitImage"
  /\ index \in imageInFlight
  /\ imageInFlight' = imageInFlight \ {index}
  /\ failedPage' = index + 1
  /\ pc' = OnImageError(index).pc
  /\ status' = OnImageError(index).status
  /\ index' = OnImageError(index).index
  /\ UNCHANGED <<promptVars, body, storageVars, textVars, trackerVars,
                 entityFirstImageURLs, storyPagesWithImages, imageRequest,
                 imageCalls, creditsAtStart, nextUrl, accumulatorVars>>

\* ------------------------------------------------------------ after the loop
\* storyEntities: generationId: entityGenerationIds[entity.id], for the
\* entities (positions of the entity list) that have one.
storyEntityGenerationIds ==
  [p \in {q \in DOMAIN entities : entities[q] \in DOMAIN entityGenerationIds} |->
     entityGenerationIds[entities[p]]]

CreateStory ==
  /\ pc = "loop"
  /\ index >= Len(generatedStory)
  /\ stories' = Append(stories, [pages |-> storyPagesWithImages,
                                 entities |-> entities,
                                 generationIds |-> storyEntityGenerationIds])
  /\ pc' = "deduct"
  /\ UNCHANGED <<promptVars, body, userExists, credits, status, textVars, trackerVars, loopVars>>

\* storage.createStory rejects: the catch answers 500.
CreateStoryFail ==
  /\ pc = "loop"
  /\ index >= Len(generatedStory)
  /\ pc' = "failed"
  /\ status' = 500
  /\ UNCHANGED <<promptVars, body, storageVars, textVars, trackerVars, loopVars>>

\* storage.getUser or storage.updateUserCredits rejects after the story was
\* stored: the catch answers 500.
DeductCreditFail ==
  /\ pc = "deduct"
  /\ body.userId
  /\ pc' = "failed"
  /\ status' = 500
  /\ UNCHANGED <<promptVars, body, storageVars, textVars, trackerVars, loopVars>>

\* Credit deduction and the 201 answer.
DeductCredit ==
  /\ pc = "deduct"
  /\ credits' = IF body.userId /\ userExists /\ credits > 0
                THEN credits - 1 ELSE credits
  /\ pc' = "completed"
  /\ status' = 201
  /\ UNCHANGED <<promptVars, body, userExists, stories, textVars, trackerVars, loopVars>>

\* ------------------------------------------------ prompt composition
\* OpenAIService.generateImagePrompt: the scene-variety directives of a page.
\* A camera angle or a pose is written as its index in CAMERA_ANGLES or
\* POSE_VARIETY: compositionGuidance is <<"camera", index>> for a camera angle;
\* the opening and the final composition are texts of their own.
generateImagePrompt(pageNum, totalPages) ==
  LET interiorPageIndex == IF pageNum - 2 > 0 THEN pageNum - 2 ELSE 0
      cameraAngle == interiorPageIndex % NumCameraAngles
      poseStyle == interiorPageIndex % NumPoses
  IN IF pageNum = 1
     THEN [sceneVariation |-> "OPENING", compositionGuidance |-> <<"opening", 0>>,
           cameraAngle |-> cameraAngle, poseStyle |-> poseStyle]
     ELSE IF pageNum = totalPages
     THEN [sceneVariation |-> "FINAL", compositionGuidance |-> <<"final", 0>>,
           cameraAngle |-> cameraAngle, poseStyle |-> poseStyle]
     ELSE [sceneVariation |-> "INTERIOR",
           compositionGuidance |-> <<"camera", cameraAngle>>,
           cameraAngle |-> cameraAngle, poseStyle |-> poseStyle]

\* generateStory's call: six arguments, totalPages takes its default.
EnhancePage(pageNum, numberOfStoryPages) ==
  generateImagePrompt(pageNum, DefaultTotalPages)

\* generateStoryEntities returned storyData with n pages.
ExtractPages ==
  /\ storyPages = 0
  /\ enhancedPages = << >>
  /\ \E n \in 1..MaxPromptPages : storyPages' = n
  /\ UNCHANGED <<enhancedPages, imagePc, policyVars, composeVars, handlerVars>>

\* storyPages.map: the callback runs for the next page and composes its
\* request up to the provider call.
ComposeImagePrompt ==
  /\ storyPages > 0
  /\ Len(enhancedPages) < storyPages
  /\ enhancedPages' =
       Append(enhancedPages, EnhancePage(Len(enhancedPages) + 1, storyPages))
  /\ UNCHANGED <<storyPages, imagePc, policyVars, composeVars, handlerVars>>

InitPrompt ==
  /\ Init
  /\ body = [userId |-> FALSE, formValid |-> TRUE, storyPages |-> 0,
             characterImages |-> << >>]
  /\ userExists = FALSE
  /\ credits = 0

NextPrompt == ExtractPages \/ ComposeImagePrompt

SpecPrompt == InitPrompt /\ [][NextPrompt]_vars

\* ------------------------------------- age policies and the image payload
\* Own keys of AGE_GUIDANCE and of AGE_IMAGE_GUIDANCE.
AgeRangeKeys == {"0-2", "3-5", "6-8", "9-12"}

\* The ageRange values of the story-text requests: ageRange is any non-empty
\* string there (z.string().min(1) of /api/preview and
\* /api/generate-story-text).
AgeRanges == AgeRangeKeys \cup {"13-15", "constructor"}

\* Variant: an unknown age range gets the policy of the youngest readers.
AgePolicyYoungest(range) ==
  IF range \in AgeRangeKeys THEN range
  ELSE IF range \in ObjectPrototypeKeys THEN "Object.prototype"
  ELSE "0-2"

\* AGE_GUIDANCE[ageRange] || AGE_GUIDANCE["6-8"], and the same lookup in
\* AGE_IMAGE_GUIDANCE: a policy is written as its key; the lookup of an
\* inherited property name gives that property of Object.prototype.
AgePolicy(range) ==
  IF range \in AgeRangeKeys THEN range
  ELSE IF range \in ObjectPrototypeKeys THEN "Object.prototype"
  ELSE "6-8"

\* POST /api/generate-story-text (or /api/preview) calls generateStory.
ReceiveStoryTextRequest ==
  /\ imagePc = "idle"
  /\ \E range \in AgeRanges : ageRange' = range
  /\ imagePc' = "generateStoryEntities"
  /\ UNCHANGED <<directiveVars, ageGuidance, ageImageGuidance, composeVars, handlerVars>>

\* generateStoryEntities composes its request.
ComposeEntityExtractionPrompt ==
  /\ imagePc = "generateStoryEntities"
  /\ ageGuidance' = AgePolicy(ageRange)
  /\ imagePc' = "generateImagePrompt"
  /\ UNCHANGED <<directiveVars, ageRange, ageImageGuidance, composeVars, handlerVars>>

\* generateImagePrompt composes its request.
ComposeImagePromptRequest ==
  /\ imagePc = "generateImagePrompt"
  /\ ageImageGuidance' = AgePolicy(ageRange)
  /\ imagePc' = "storyTextDone"
  /\ UNCHANGED <<directiveVars, ageRange, ageGuidance, composeVars, handlerVars>>

\* What the text provider wrote as a page's image prompt: a scene, with or
\* without the sentence that forbids text in the image; and the handler's
\* own prompt for a pre-written page without a response page.
BasePrompts ==
  {<<Tok("scene", "short")>>,
   <<Tok("scene", "short"), Tok("NO TEXT in the image", "")>>,
   <<Tok("scene", "long"), Tok("NO TEXT in the image", "")>>,
   <<Tok("Create an illustration for", "")>>}

\* The art styles of the image requests: artStyle is any string in
\* /api/generate-image and /api/generate-character-image.
ArtStyles == {"anime", "Line Art", "crayon", "constructor"}

ColorModes == {"color", "monochrome"}

EntityTypeLists == {<< >>, <<"character">>, <<"character", "location", "object">>}

\* A generateImage call of a request whose form chose an art style and a
\* colour mode.  No caller hands colorMode or characterReferenceURLs on.
ReceiveImageRequest ==
  /\ imagePc = "idle"
  /\ \E style \in ArtStyles, mode \in ColorModes, base \in BasePrompts,
        types \in EntityTypeLists, n \in 0..MaxReferenceImages, first \in BOOLEAN :
       /\ form' = [artStyle |-> style, colorMode |-> mode]
       /\ imageOptions' = [prompt |-> base,
                           artStyle |-> style,
                           colorMode |-> "",
                           entities |-> types,
                           characterReferencePaths |-> [k \in 1..n |-> k],
                           characterReferenceURLs |-> << >>,
                           isFirstPage |-> first]
  /\ imagePc' = "generateImage"
  /\ UNCHANGED <<directiveVars, policyVars, wrapped, referencesRead, contents, handlerVars>>

\* generateImage up to its geminiService.generateImage call.
ComposeWrappedPrompt ==
  /\ imagePc = "generateImage"
  /\ wrapped' = wrappedPrompt(imageOptions)
  /\ imagePc' = "references"
  /\ UNCHANGED <<directiveVars, policyVars, form, imageOptions, referencesRead,
                 contents, handlerVars>>

InlineData(path) == [inlineData |-> <<path>>, text |-> << >>]

TextPart(prompt) == [inlineData |-> << >>, text |-> prompt]

\* The for loop over referenceImagePaths: the image is downloaded and pushed.
DownloadReferenceImage ==
  /\ imagePc = "references"
  /\ referencesRead < Len(referenceImagePaths(imageOptions))
  /\ contents' =
       Append(contents, InlineData(referenceImagePaths(imageOptions)[referencesRead + 1]))
  /\ referencesRead' = referencesRead + 1
  /\ UNCHANGED <<directiveVars, imagePc, policyVars, form, imageOptions, wrapped,
                 handlerVars>>

\* The download throws: the catch inside the loop warns and goes on.
DownloadReferenceImageFail ==
  /\ imagePc = "references"
  /\ referencesRead < Len(referenceImagePaths(imageOptions))
  /\ referencesRead' = referencesRead + 1
  /\ UNCHANGED <<directiveVars, imagePc, policyVars, form, imageOptions, wrapped,
                 contents, handlerVars>>

\* Variant: the prompt is put in front of the images.
PayloadPromptFirst(parts, prompt) == <<TextPart(prompt)>> \o parts

\* contents.push(prompt)
Payload(parts, prompt) == Append(parts, TextPart(prompt))

\* After the loop: the prompt is pushed and generateContent is called.
GenerateContent ==
  /\ imagePc = "references"
  /\ referencesRead = Len(referenceImagePaths(imageOptions))
  /\ contents' = Payload(contents, wrapped)
  /\ imagePc' = "generateContent"
  /\ UNCHANGED <<directiveVars, policyVars, form, imageOptions, wrapped,
                 referencesRead, handlerVars>>

\* The provider answers with an image, or the call fails.
GenerateContentReturn ==
  /\ imagePc = "generateContent"
  /\ \E outcome \in {"imageDone", "imageFailed"} : imagePc' = outcome
  /\ UNCHANGED <<directiveVars, policyVars, composeVars, handlerVars>>

NextImage ==
  \/ ReceiveStoryTextRequest
  \/ ComposeEntityExtractionPrompt
  \/ ComposeImagePromptRequest
  \/ ReceiveImageRequest
  \/ ComposeWrappedPrompt
  \/ DownloadReferenceImage
  \/ DownloadReferenceImageFail
  \/ GenerateContent
  \/ GenerateContentReturn

SpecImage == InitPrompt /\ [][NextImage]_vars

Next ==
  \/ CreditCheck
  \/ GenerateStoryEntitiesCall
  \/ GenerateStoryEntitiesReturn
  \/ GenerateStoryEntitiesOffSchema
  \/ GenerateStoryEntitiesFail
  \/ ImagePromptReturn
  \/ ImagePromptFail
  \/ GenerateStoryReturn
  \/ GenerateImageCall
  \/ GenerateImageReturn
  \/ GenerateImageFail
  \/ CreateStory
  \/ CreateStoryFail
  \/ DeductCreditFail
  \/ DeductCredit

Spec == Init /\ [][Next]_vars

\* The requests that start a story-generation run: a valid form, sent by a
\* user with credits, with or without pre-written pages.
InitFair ==
  /\ Init
  /\ body.userId
  /\ body.formValid
  /\ body.characterImages = << >>
  /\ credits = MaxCredits

\* Every provider and storage call returns and the handler runs on: some step
\* of the request is taken whenever one is possible.
SpecFair == InitFair /\ [][Next]_vars /\ WF_vars(Next)

\* ------------------------------------------------- requests on their own
\* The single request of the handler model is not running.
InitNoRequest ==
  /\ InitRequest
  /\ body = [userId |-> FALSE, formValid |-> TRUE, storyPages |-> 0,
             characterImages |-> << >>]
  /\ userExists = FALSE
  /\ credits = 0

\* ----------------------------------- page order (generateStory, page loop)
\* The page texts the text provider writes.
PageTexts == {"once", "then", "end"}

\* storyPages.map(async (page, index) => ...): every callback runs to its
\* await, so the generateImagePrompt calls of all pages are out at once.
MapPages ==
  /\ orderPc = "map"
  /\ promptsPending' = 0..(Len(storyDataPages) - 1)
  /\ orderPc' = "all"
  /\ UNCHANGED <<storyDataPages, promptsSettled, enhanced, orderIndex,
                 orderedPages, concurrentVars, creditVars, singleRequestVars>>

\* The generateImagePrompt call of some page returns, in any order.
PromptResolves ==
  /\ orderPc = "all"
  /\ \E i \in promptsPending :
       /\ promptsPending' = promptsPending \ {i}
       /\ promptsSettled' = Append(promptsSettled, i)
  /\ UNCHANGED <<storyDataPages, enhanced, orderIndex, orderedPages, orderPc,
                 concurrentVars, creditVars, singleRequestVars>>

\* The generateImagePrompt call of some page throws: Promise.all rejects and
\* the handler answers 500.
PromptRejects ==
  /\ orderPc = "all"
  /\ promptsPending # {}
  /\ orderPc' = "failed"
  /\ UNCHANGED <<storyDataPages, promptsPending, promptsSettled, enhanced,
                 orderIndex, orderedPages, concurrentVars, creditVars,
                 singleRequestVars>>

\* Variant: the results are collected in the order the calls returned.
PromiseAllInSettlingOrder(pages, settled) ==
  [k \in 1..Len(settled) |->
     [text |-> pages[settled[k] + 1], pageNum |-> settled[k] + 1]]

\* Promise.all: the value of the callback of index k - 1 at position k,
\* whatever the order in which the calls returned.  The callback returns
\* page.text and the prompt composed for pageNum = index + 1.
PromiseAll(pages, settled) ==
  [k \in 1..Len(pages) |-> [text |-> pages[k], pageNum |-> k]]

\* await Promise.all(...) resumes when every call has returned.
PromiseAllResolves ==
  /\ orderPc = "all"
  /\ promptsPending = {}
  /\ enhanced' = PromiseAll(storyDataPages, promptsSettled)
  /\ orderPc' = "loop"
  /\ UNCHANGED <<storyDataPages, promptsPending, promptsSettled, orderIndex,
                 orderedPages, concurrentVars, creditVars, singleRequestVars>>

\* One turn of the page loop: the image is generated and the page pushed.
PushPage ==
  /\ orderPc = "loop"
  /\ orderIndex < Len(enhanced)
  /\ orderedPages' =
       Append(orderedPages,
              [pageNumber |-> orderIndex + 1,
               text |-> enhanced[orderIndex + 1].text,
               promptOfPage |-> enhanced[orderIndex + 1].pageNum])
  /\ orderIndex' = orderIndex + 1
  /\ UNCHANGED <<storyDataPages, promptsPending, promptsSettled, enhanced,
                 orderPc, concurrentVars, creditVars, singleRequestVars>>

\* After the loop the story is stored and the request answered.
StoreOrderedPages ==
  /\ orderPc = "loop"
  /\ orderIndex = Len(enhanced)
  /\ orderPc' = "completed"
  /\ UNCHANGED <<storyDataPages, promptsPending, promptsSettled, enhanced,
                 orderIndex, orderedPages, concurrentVars, creditVars,
                 singleRequestVars>>

InitOrder ==
  /\ InitNoRequest
  /\ storyDataPages \in SeqsUpTo(PageTexts, MaxOrderPages)
  /\ promptsPending = {}
  /\ promptsSettled = << >>
  /\ enhanced = << >>
  /\ orderIndex = 0
  /\ orderedPages = << >>
  /\ orderPc = "map"
  /\ IdleConcurrent
  /\ IdleCredits

NextOrder ==
  \/ MapPages
  \/ PromptResolves
  \/ PromptRejects
  \/ PromiseAllResolves
  \/ PushPage
  \/ StoreOrderedPages

SpecOrder == InitOrder /\ [][NextOrder]_vars

\* --------------------------------------------- two requests at the same time
\* The entity-id lists of the pages of the two requests.
ConcurrentPageLists == {<< >>, <<"e1">>}

ConcurrentStories ==
  SeqsUpTo(ConcurrentPageLists, MaxConcurrentPages) \ {<< >>}

\* Variant: the accumulator is one object of the module, shared by all
\* requests.
AccumulatorShared(r) == 1

\* const entityFirstImageURLs = {} inside the handler: the object of
\* request r is its own.
Accumulator(r) == r

\* firstAppearanceEntities and recurringPageEntities of page index i
FirstOnPage(pages, i) ==
  SelectSeq(pages[i + 1], LAMBDA id : Tracker(pages).first[id] = i)

RecurringOnPage(pages, i) ==
  SelectSeq(pages[i + 1], LAMBDA id : Tracker(pages).first[id] # i)

\* characterReferencePaths of a request without pre-generated images: the
\* first image of each recurring entity of the page, once.
RECURSIVE ReferencePathsOf(_, _, _, _)
ReferencePathsOf(map, paths, ids, k) ==
  IF k > Len(ids) THEN paths
  ELSE ReferencePathsOf(map,
                        IF ids[k] \in DOMAIN map /\ ~Includes(paths, map[ids[k]])
                        THEN Append(paths, map[ids[k]])
                        ELSE paths,
                        ids, k + 1)

\* Request r calls generateImage for its page.
ConcurrentImageCall(r) ==
  /\ reqPc[r] = "loop"
  /\ reqIndex[r] < Len(reqPages[r])
  /\ reqReferencePaths' =
       [reqReferencePaths EXCEPT ![r] =
          Append(@, ReferencePathsOf(firstImageURLs[Accumulator(r)], << >>,
                                     RecurringOnPage(reqPages[r], reqIndex[r]), 1))]
  /\ reqPc' = [reqPc EXCEPT ![r] = "awaitImage"]
  /\ UNCHANGED <<reqPages, reqIndex, firstImageURLs, reqImageUrls, uuid,
                 orderVars, creditVars, singleRequestVars>>

\* The image of request r's page is stored under a fresh uuid and the
\* handler of r records it for the entities first listed on the page.
ConcurrentImageReturn(r) ==
  /\ reqPc[r] = "awaitImage"
  /\ firstImageURLs' =
       [firstImageURLs EXCEPT ![Accumulator(r)] =
          SetFirstImages(@, FirstOnPage(reqPages[r], reqIndex[r]), uuid)]
  /\ reqImageUrls' = [reqImageUrls EXCEPT ![r] = Append(@, uuid)]
  /\ uuid' = uuid + 1
  /\ reqIndex' = [reqIndex EXCEPT ![r] = @ + 1]
  /\ reqPc' = [reqPc EXCEPT ![r] = "loop"]
  /\ UNCHANGED <<reqPages, reqReferencePaths, orderVars, creditVars,
                 singleRequestVars>>

\* generateImage throws: request r answers 500.
ConcurrentImageFail(r) ==
  /\ reqPc[r] = "awaitImage"
  /\ reqPc' = [reqPc EXCEPT ![r] = "failed"]
  /\ UNCHANGED <<reqPages, reqIndex, firstImageURLs, reqReferencePaths,
                 reqImageUrls, uuid, orderVars, creditVars, singleRequestVars>>

\* The loop of request r is over: the story is stored, r answers 201.
ConcurrentRespond(r) ==
  /\ reqPc[r] = "loop"
  /\ reqIndex[r] = Len(reqPages[r])
  /\ reqPc' = [reqPc EXCEPT ![r] = "completed"]
  /\ UNCHANGED <<reqPages, reqIndex, firstImageURLs, reqReferencePaths,
                 reqImageUrls, uuid, orderVars, creditVars, singleRequestVars>>

InitConcurrent ==
  /\ InitNoRequest
  /\ IdleOrder
  /\ reqPages \in [Requests -> ConcurrentStories]
  /\ reqPc = [r \in Requests |-> "loop"]
  /\ reqIndex = [r \in Requests |-> 0]
  /\ firstImageURLs = [r \in Requests |-> EmptyMap]
  /\ reqReferencePaths = [r \in Requests |-> << >>]
  /\ reqImageUrls = [r \in Requests |-> << >>]
  /\ uuid = 1
  /\ IdleCredits

NextConcurrent ==
  \/ \E r \in Requests : ConcurrentImageCall(r)
  \/ \E r \in Requests : ConcurrentImageReturn(r)
  \/ \E r \in Requests : ConcurrentImageFail(r)
  \/ \E r \in Requests : ConcurrentRespond(r)

SpecConcurrent == InitConcurrent /\ [][NextConcurrent]_vars

\* ------------------------------------- one user's credits, several requests
\* if (userId ...) { user = await storage.getUser(userId); 404; 403 }:
\* the request reads the user's credits and goes on if there are any.
CreditGate(r) ==
  /\ creditPc[r] = "pending"
  /\ creditsRead' = [creditsRead EXCEPT ![r] = userCredits]
  /\ creditPc' = [creditPc EXCEPT ![r] =
                    IF userCredits <= 0 THEN "rejected" ELSE "generating"]
  /\ UNCHANGED <<userCredits, storiesCreated, creditsGranted, orderVars, concurrentVars,
                 singleRequestVars>>

\* The story is generated and storage.createStory stores it.
CreditCreateStory(r) ==
  /\ creditPc[r] = "generating"
  /\ storiesCreated' = storiesCreated + 1
  /\ creditPc' = [creditPc EXCEPT ![r] = "created"]
  /\ UNCHANGED <<userCredits, creditsRead, creditsGranted, orderVars, concurrentVars,
                 singleRequestVars>>

\* A provider or storage call throws before the story is stored.
CreditGenerationFail(r) ==
  /\ creditPc[r] = "generating"
  /\ creditPc' = [creditPc EXCEPT ![r] = "failed"]
  /\ UNCHANGED <<userCredits, creditsRead, storiesCreated, creditsGranted, orderVars,
                 concurrentVars, singleRequestVars>>

\* const user = await storage.getUser(userId), after the story is stored
CreditGetUser(r) ==
  /\ creditPc[r] = "created"
  /\ creditsRead' = [creditsRead EXCEPT ![r] = userCredits]
  /\ creditPc' = [creditPc EXCEPT ![r] = "read"]
  /\ UNCHANGED <<userCredits, storiesCreated, creditsGranted, orderVars, concurrentVars,
                 singleRequestVars>>

\* if (user.credits > 0) await storage.updateUserCredits(userId,
\* user.credits - 1): UPDATE users SET credits = <value>.
CreditsAfterUpdate(stored, read) ==
  IF read > 0 THEN read - 1 ELSE stored

\* The update is written and the request answers 201.
CreditDeduct(r) ==
  /\ creditPc[r] = "read"
  /\ userCredits' = CreditsAfterUpdate(userCredits, creditsRead[r])
  /\ creditPc' = [creditPc EXCEPT ![r] = "completed"]
  /\ UNCHANGED <<creditsRead, storiesCreated, creditsGranted, orderVars, concurrentVars,
                 singleRequestVars>>

\* storage.getUser or storage.updateUserCredits throws after the story is
\* stored: the catch block answers 500.
CreditDeductFail(r) ==
  /\ creditPc[r] \in {"created", "read"}
  /\ creditPc' = [creditPc EXCEPT ![r] = "failed"]
  /\ UNCHANGED <<userCredits, creditsRead, storiesCreated, creditsGranted, orderVars,
                 concurrentVars, singleRequestVars>>

InitCredits ==
  /\ InitNoRequest
  /\ IdleOrder
  /\ IdleConcurrent
  /\ userCredits \in 0..MaxUserCredits
  /\ creditPc = [r \in Requests |-> "pending"]
  /\ creditsRead = [r \in Requests |-> 0]
  /\ storiesCreated = 0
  /\ creditsGranted = userCredits

NextCredits ==
  \/ \E r \in Requests : CreditGate(r)
  \/ \E r \in Requests : CreditCreateStory(r)
  \/ \E r \in Requests : CreditGenerationFail(r)
  \/ \E r \in Requests : CreditGetUser(r)
  \/ \E r \in Requests : CreditDeduct(r)
  \/ \E r \in Requests : CreditDeductFail(r)

SpecCredits == InitCredits /\ [][NextCredits]_vars

\* ------------------------------------------------------------ properties
\* The page indexes on which an entity id is listed, and the first two.
PagesContaining(e) ==
  {i \in 0..(Len(generatedStory) - 1) : Includes(generatedStory[i + 1], e)}

MinOf(S) == CHOOSE i \in S : \A j \in S : i <= j

FirstPageOf(e) == MinOf(PagesContaining(e))

SecondPageOf(e) == MinOf(PagesContaining(e) \ {FirstPageOf(e)})

\* Page i has been composed: its generateImage call has been issued.
Composed(i) == index > i \/ (index = i /\ pc = "awaitImage")

\* C1: the image calls of a request are issued for pages 1, 2, 3, ... in this
\* order, at most one call is outstanding, and the outstanding call is the
\* latest one issued: no call is issued before the previous one returned.
C1_ImageCallsInOrderOneAtATime ==
  /\ \A j \in DOMAIN imageCalls : imageCalls[j] = j
  /\ Cardinality(imageInFlight) <= 1
  /\ \A i \in imageInFlight : i + 1 = Len(imageCalls)

C1_Witness ==
  /\ Len(imageCalls) = 2
  /\ imageInFlight = {1}
  /\ Len(storyPagesWithImages) = 1

C3_ImageFailureFailsTheRun ==
  failedPage # 0 =>
    /\ pc = "failed"
    /\ status = 500
    /\ \A j \in DOMAIN imageCalls : imageCalls[j] <= failedPage
    /\ imageInFlight = {}
    /\ stories = << >>
    /\ credits = creditsAtStart

C3_Witness ==
  /\ failedPage = 1
  /\ Len(generatedStory) = 2
  /\ body.userId
  /\ credits > 0
  /\ status = 500

C5_NoDanglingEntityReferences ==
  /\ \A i \in DOMAIN storyResponse.pages :
       Range(storyResponse.pages[i]) \subseteq Range(storyResponse.entities)
  /\ \A k \in DOMAIN stories :
       \A i \in DOMAIN stories[k].pages :
         Range(stories[k].pages[i].entities) \subseteq Range(stories[k].entities)

\* C6: entityFrequency of an id is the number of pages listing it, and the
\* recurring set is the set of ids listed on more than one page.
C6_FrequencyCountsPages ==
  /\ \A e \in EntityIds :
       (IF e \in DOMAIN entityFrequency THEN entityFrequency[e] ELSE 0)
         = Cardinality(PagesContaining(e))
  /\ Range(recurringEntities) =
       {e \in EntityIds : Cardinality(PagesContaining(e)) > 1}

C8_ForcedInclusion ==
  pc = "awaitImage" =>
    LET expected ==
          {p \in DOMAIN entities :
             \/ Includes(pageEntities(index), entities[p])
             \/ Cardinality(PagesContaining(entities[p])) > 1}
    IN /\ Range(imageRequest.entities) = expected
       /\ Len(imageRequest.entities) = Cardinality(expected)

\* C9: when all pages of an N-page story are composed, page 1 has the opening
\* composition and, for N > 1, page N has the final composition; a single
\* page has the opening composition and not the final one.
C9_FirstAndLastPageDirectives ==
  (storyPages >= 1 /\ Len(enhancedPages) = storyPages) =>
    /\ enhancedPages[1].compositionGuidance = <<"opening", 0>>
    /\ enhancedPages[1].sceneVariation = "OPENING"
    /\ storyPages > 1 =>
         /\ enhancedPages[storyPages].compositionGuidance = <<"final", 0>>
         /\ enhancedPages[storyPages].sceneVariation = "FINAL"

\* Page k is an interior page of the story being composed.
Interior(k) == 1 < k /\ k < storyPages

\* C10: for interior pages the composition directive of page k is that of
\* page k + 7, the pose directive that of page k + 5, and two consecutive
\* interior pages have different composition directives.
C10_SceneVarietyIsCyclic ==
  \A k \in DOMAIN enhancedPages :
    Interior(k) =>
      /\ (k + NumCameraAngles \in DOMAIN enhancedPages /\ Interior(k + NumCameraAngles))
           => enhancedPages[k + NumCameraAngles].compositionGuidance
                = enhancedPages[k].compositionGuidance
      /\ (k + NumPoses \in DOMAIN enhancedPages /\ Interior(k + NumPoses))
           => enhancedPages[k + NumPoses].poseStyle = enhancedPages[k].poseStyle
      /\ (k + 1 \in DOMAIN enhancedPages /\ Interior(k + 1))
           => enhancedPages[k + 1].compositionGuidance
                # enhancedPages[k].compositionGuidance

\* A block of a prompt is the instruction to use the reference images.
IsReferenceInstruction(tok) ==
  tok.t = "Use the reference image(s) above as strict visual references"

\* A reference image is supplied for page i: the request carries a
\* pre-generated character image, or an entity listed on the page was first
\* listed on an earlier page, whose image has been generated.
ReferenceSupplied(i) ==
  \/ body.characterImages # << >>
  \/ \E e \in Range(pageEntities(i)) : FirstPageOf(e) < i

PayloadSent == imagePc \in {"generateContent", "imageDone", "imageFailed"}

\* C12: in the payload sent to the image provider the prompt is the last
\* part, every part before it is a reference image, and while the payload is
\* built no part follows a prompt.
C12_ImagesBeforePrompt ==
  /\ \A k \in DOMAIN contents : contents[k].text # << >> => k = Len(contents)
  /\ PayloadSent =>
       /\ contents # << >>
       /\ contents[Len(contents)].text = wrapped
       /\ \A k \in 1..(Len(contents) - 1) : contents[k].inlineData # << >>

C12_Witness ==
  /\ imagePc = "generateContent"
  /\ Len(contents) = 3
  /\ contents[1].inlineData = <<1>>
  /\ contents[3].text = wrapped

\* C13: every prompt sent to the image provider has a block that forbids
\* rendered text in the image, whatever the base image prompt was.
C13_NoTextBlockInEveryPrompt ==
  PayloadSent => \E k \in DOMAIN wrapped : wrapped[k].t = "NO TEXT in the image"

\* C14: the prompt sent for a request whose form chose monochrome holds the
\* grayscale-only directive, and the prompt of a colour request does not.
C14_MonochromeDirective ==
  PayloadSent =>
    LET directive == getColorModeDescription("monochrome")[1]
    IN (form.colorMode = "monochrome") <=> Includes(wrapped, directive)

\* C16, as claimed: the provider calls outstanding at any time are for at most
\* one page.  (While the extraction request is outstanding it is the only
\* call; afterwards each outstanding text call is the image-prompt request of
\* a page of its own.)
C16_NoParallelPages == textInFlight + Cardinality(imageInFlight) <= 1

\* C16, amended: image calls for two pages are never outstanding together and
\* no text call is outstanding while an image call is; image-prompt requests
\* for several pages are outstanding together only before the first image
\* call, while generateStory waits for them.
C16_NoParallelImagePages ==
  /\ Cardinality(imageInFlight) <= 1
  /\ imageInFlight # {} => textInFlight = 0
  /\ textInFlight > 1 =>
       /\ imageCalls = << >>
       /\ pc \in {"prompting", "failed"}
       /\ textInFlight <= Len(storyResponse.pages)

C16_Witness ==
  /\ pc = "prompting"
  /\ textInFlight = 2
  /\ Len(storyResponse.pages) = 2

\* C17: once an image call has been issued, every text-provider call of the
\* request has returned, the extraction was requested once, and the number of
\* text-provider calls stays what it was when generateStory returned.
C17_ExtractionBeforeImages ==
  imageCalls # << >> =>
    /\ textInFlight = 0
    /\ extractionCalls = 1
    /\ extraction \in {"returned", "offSchema"}
    /\ textCalls = 1 + Len(storyResponse.pages)

C17_Witness ==
  /\ imageInFlight = {0}
  /\ textCalls = 3
  /\ Len(generatedStory) = 2

\* C18: the extractor sends one request to the text provider: none before it
\* is called, one from then on, also after a failed or an empty answer.
C18_OneExtractionRequest ==
  /\ extractionCalls = (IF extraction = "none" THEN 0 ELSE 1)
  /\ extraction = "error" => textCalls = 1 /\ textInFlight = 0

C18_Witness ==
  /\ extraction = "error"
  /\ extractionCalls = 1
  /\ status = 500

\* C19: after the text provider returned no content or content that is not an
\* {entities, pages} object, the request ends with an error: no image call
\* is made, no story is stored, no credit is taken and the answer is never
\* 201.
C19_ExtractionFailureSurfaced ==
  extraction \in {"error", "offSchema"} =>
    /\ imageCalls = << >>
    /\ stories = << >>
    /\ credits = creditsAtStart
    /\ status \in {0, 500}
    /\ pc \notin {"deduct", "completed"}

\* C20: an age range that is none of the four brackets gets the "6-8" policy
\* in the story request and in the image-prompt request, a known bracket
\* gets its own; an art style without a descriptor gets the default
\* descriptor, a style with one gets its own.
C20_ConfigurationFallback ==
  /\ ageGuidance # "" =>
       ageGuidance = (IF ageRange \in AgeRangeKeys THEN ageRange ELSE "6-8")
  /\ ageImageGuidance # "" =>
       ageImageGuidance = (IF ageRange \in AgeRangeKeys THEN ageRange ELSE "6-8")
  /\ \A k \in DOMAIN wrapped :
       wrapped[k].t = "ART STYLE (MUST FOLLOW EXACTLY)" =>
         wrapped[k].a = (IF NormalizeStyle(form.artStyle) \in ArtStyleKeys
                         THEN NormalizeStyle(form.artStyle)
                         ELSE "default illustration style")

\* The request has ended: the answer is sent.
Terminal == pc \in {"completed", "failed"}

\* C23: the page index never goes back and moves one page at a time, an ended
\* request stays ended, at most one image call is issued per page, a
\* completed request has generated every page and stored the story, and
\* every run ends, completed or failed.
C23_RunStateMachine ==
  /\ [][/\ index' \in {index, index + 1}
        /\ Terminal => pc' = pc]_vars
  /\ [](Len(imageCalls) <= Len(generatedStory))
  /\ [](pc = "completed" =>
          /\ Len(storyPagesWithImages) = Len(generatedStory)
          /\ index = Len(generatedStory)
          /\ Len(stories) = 1)
  /\ <>Terminal

C23_Witness ==
  /\ pc = "completed"
  /\ Len(storyPagesWithImages) = 2
  /\ Len(imageCalls) = 2

\* C26: the imagePrompt of every page generated, and of every page of a
\* stored story, is the prompt that was handed to the image provider for
\* that page, style block and reference instruction included, and not the
\* base prompt of the page.
C26_StoredPromptIsSentPrompt ==
  /\ \A k \in DOMAIN storyPagesWithImages :
       /\ storyPagesWithImages[k].imagePrompt = promptsSent[k]
       /\ storyPagesWithImages[k].imagePrompt # pageImagePrompt(k - 1)
       /\ \E j \in DOMAIN promptsSent[k] :
            promptsSent[k][j].t = "ART STYLE (MUST FOLLOW EXACTLY)"
  /\ \A n \in DOMAIN stories :
       \A k \in DOMAIN stories[n].pages :
         stories[n].pages[k].imagePrompt = promptsSent[k]

C26_Witness ==
  /\ Len(stories) = 1
  /\ Len(stories[1].pages) = 2
  /\ IsReferenceInstruction(stories[1].pages[2].imagePrompt[1])
  /\ ~IsReferenceInstruction(stories[1].pages[1].imagePrompt[1])

\* The image URL of the page with number n.
ImageUrlOfPage(n) == storyPagesWithImages[n].imageUrl

\* C27: an entry of characterReferenceImages is never replaced once it is
\* recorded, and the image recorded for an entity id is the image of a page
\* that lists the id.
C27_FirstWriteWins ==
  /\ [][\A e \in DOMAIN characterReferenceImages :
          /\ e \in DOMAIN characterReferenceImages'
          /\ characterReferenceImages'[e] = characterReferenceImages[e]]_vars
  /\ [](\A e \in DOMAIN characterReferenceImages :
          \E n \in DOMAIN storyPagesWithImages :
            /\ ImageUrlOfPage(n) = characterReferenceImages[e]
            /\ Includes(generatedStory[n], e))

OwnFirstImages(r) ==
  [id \in {x \in DOMAIN Tracker(reqPages[r]).first :
             Tracker(reqPages[r]).first[x] < Len(reqImageUrls[r])} |->
     reqImageUrls[r][Tracker(reqPages[r]).first[id] + 1]]

\* C22: under every interleaving of two requests, each image call of a
\* request is handed the reference images the request would hand over when
\* it runs alone, and the first-image map of a request holds only images
\* the request generated itself.
C22_RequestsIndependent ==
  \A r \in Requests :
    /\ \A k \in DOMAIN reqReferencePaths[r] :
         reqReferencePaths[r][k] =
           ReferencePathsOf(OwnFirstImages(r), << >>,
                            RecurringOnPage(reqPages[r], k - 1), 1)
    /\ \A id \in DOMAIN firstImageURLs[r] :
         Includes(reqImageUrls[r], firstImageURLs[r][id])

C22_Witness ==
  /\ \A r \in Requests : reqPc[r] = "completed"
  /\ reqImageUrls[1] = <<1, 3>>
  /\ reqImageUrls[2] = <<2, 4>>
  /\ reqReferencePaths[1] = << << >>, <<1>> >>
  /\ reqReferencePaths[2] = << << >>, <<2>> >>

\* Every request of the user has ended.
CreditRequestsEnded ==
  \A r \in Requests : creditPc[r] \in {"rejected", "failed", "completed"}

\* C24: the stories created for a user never outnumber the credits the user
\* had, once the requests have ended the credits are lower by one per story
\* created, and a request that finds no credit creates nothing.
C24_OneCreditOneStory ==
  /\ storiesCreated <= creditsGranted
  /\ CreditRequestsEnded => userCredits = creditsGranted - storiesCreated
  /\ creditsGranted = 0 =>
       \A r \in Requests : creditPc[r] \in {"pending", "rejected"}

\* C25: the prompt handed to the image provider is at most MAX_PROMPT_LENGTH
\* characters long, whatever the base prompt, the entities and the art
\* style.
C25_PromptWithinBudget == TextLength(wrapped) <= MAX_PROMPT_LENGTH

\* C28: a payload whose prompt starts with the reference-image instruction
\* holds at least one image part before the prompt.
C28_InstructionHasReferenceImage ==
  (PayloadSent /\ wrapped # << >> /\ IsReferenceInstruction(wrapped[1])) =>
    \E k \in 1..(Len(contents) - 1) : contents[k].inlineData # << >>
====
